---- MODULE Spec2Model ----
(***************************************************************************)
(* State-machine model of the StudyBility chat client and its proxy.       *)
(*                                                                         *)
(*  - the chat hook useChat (src/src/hooks/useLocalStorage.ts:136-805) on  *)
(*    top of the storage hook useLocalStorage                              *)
(*    (src/src/hooks/useSpeech.ts:439-573);                                *)
(*  - the proxy endpoint POST /api/chat with its rate limiter              *)
(*    (src/unnamed/part_001:10-156).                                       *)
(*                                                                         *)
(* React semantics used by the model: every callback is a closure over    *)
(* the values of the render that created it.  setValue of useLocalStorage  *)
(* evaluates a functional update on the storedValue of ITS render          *)
(* (value(storedValue), useSpeech.ts:520), and an async sendMessage keeps  *)
(* the setSessions / setProgressStats of the render in which it was        *)
(* called for its whole life.  Each call therefore carries a snapshot      *)
(* (snapS, snapP) taken when the call starts; UI callbacks run against the *)
(* latest committed state.  State setters are no-ops after unmount.        *)
(* A response is delivered with its body in one step.  Strings that are    *)
(* trimmed or sliced are sequences of one-character strings.  The subject  *)
(* and difficulty of a session, keywords and dates of the statistics are   *)
(* carried through unchanged by the code and are left out.                 *)
(*                                                                         *)
(* localStorage: the item under 'studypal_sessions' is a text that         *)
(* JSON.stringify writes and JSON.parse reads; setItem throws a            *)
(* QuotaExceededError when the text of a value is larger than the store    *)
(* has room for (capacity, counted in sessions and messages).  Spec runs   *)
(* the chat hook on an empty store with room for everything; SpecStore     *)
(* runs the storage hook alone on the items a page load may find.          *)
(***************************************************************************)
EXTENDS Integers, Sequences, FiniteSets, TLC

\* ----------------------------------------------------------------- bounds
MaxSends == 2        \* sendMessage calls with non-empty content
MaxOps == 1          \* other UI callbacks (create, delete, rename, ...)
MaxNow == 1          \* ticks of the client clock
MaxPosts == 7        \* POST requests handled by the proxy
MaxAdvances == 2     \* advances of the proxy clock
MaxWrites == 3       \* setValue calls and reloads of the storage hook

\* ------------------------------------------------------ program constants
API_TIMEOUT == 30000
MAX_RETRIES == 2
RETRY_DELAY == 2000
SETTLE_DELAY == 50
TITLE_MAX == 50
RATE_LIMIT_WINDOW == 60000
MAX_REQUESTS_PER_WINDOW == 5
SWEEP_WINDOWS == 5
KEEP_SESSIONS == 10

Null == 0
NoError == "null"
MissingId == Null - 1
\* message contents are character sequences; fixed texts are kept as one unit
APOLOGY == <<"I apologize, but I encountered an error. Please try again or rephrase your question.">>
NETWORK_ERROR_TEXT == "Network error. Please check your internet connection."
SESSION_NOT_FOUND == "Session not found"
NEW_CHAT == <<"N", "e", "w", " ", "C", "h", "a", "t">>
ELLIPSIS == <<".", ".", ".">>

SendIds == 1..MaxSends

\* contents a caller may pass to sendMessage
Contents == { <<>>, <<" ">>, <<"a">>, <<" ", "a">>, <<"b">> }
\* titles a caller may pass to updateSessionTitle
Titles == { <<" ", "t">> }

VARIABLES
    sessions,            \* storedValue of useChatSessions (latest committed)
    store,               \* localStorage value under 'studypal_sessions'
    progressStats,       \* storedValue of useProgressStats
    currentSessionId,    \* useState, Null when none
    isLoading,           \* useState
    error,               \* useState, NoError when null
    mounted,             \* the component that owns the hook is mounted
    abortControllerRef,  \* send whose controller the ref holds, or Null
    timeoutIdRef,        \* send whose timer the ref holds, or Null
    send,                \* per sendMessage call: its locals and position
    nextId,              \* generateId: next fresh id
    now,                 \* Date.now()
    ops,                 \* UI callbacks taken so far
    warned,              \* console.warn calls of sendMessage
    removed,             \* ids removed by deleteSession or clearAllSessions
    progressItem         \* localStorage holds an item 'studypal_progress'

VARIABLES
    capacity,            \* what localStorage accepts under 'studypal_sessions'
    writes,              \* setValue calls and reloads of the storage hook
    lastOp,              \* outcome of the latest storage-hook operation
    lastValue,           \* the value handed to the latest setValue
    raised               \* a storage-hook operation threw to its caller

storeVars == <<capacity, writes, lastOp, lastValue, raised>>

VARIABLES
    ipRequests,          \* Map ip -> {count, timestamp}; NoEntry when absent
    srvNow,              \* Date.now() of the proxy process
    posts,               \* per ip, the POSTs handled so far (history)
    lastResponse,        \* the response of the latest POST
    lastRequest,         \* the latest POST: its client, body and environment
    advances             \* clock advances taken so far

proxyVars == <<ipRequests, srvNow, posts, lastResponse, lastRequest,
               advances>>

clientVars == <<sessions, store, progressStats, currentSessionId, isLoading,
                error, mounted, abortControllerRef, timeoutIdRef, send,
                nextId, now, ops, warned, removed, progressItem, storeVars>>

\* ------------------------------------------------------------ string help
RECURSIVE TrimLeft(_)
TrimLeft(s) == IF s = <<>> THEN s
               ELSE IF Head(s) = " " THEN TrimLeft(Tail(s)) ELSE s

RECURSIVE TrimRight(_)
TrimRight(s) == IF s = <<>> THEN s
                ELSE IF s[Len(s)] = " " THEN TrimRight(SubSeq(s, 1, Len(s) - 1))
                ELSE s

\* String.prototype.trim
Trim(s) == TrimRight(TrimLeft(s))

\* content.slice(0, 50) + (content.length > 50 ? '...' : '')
TitleOf(content) ==
    IF Len(content) > TITLE_MAX
    THEN SubSeq(content, 1, TITLE_MAX) \o ELLIPSIS
    ELSE content

\* ------------------------------------------------------------- data model
NoMessage == [id |-> Null, content |-> <<>>, role |-> "none", timestamp |-> 0,
              isBookmarked |-> "undefined", isError |-> "undefined"]

IdleSend == [pc |-> "idle", content |-> <<>>, snapS |-> <<>>,
             snapP |-> [totalSessions |-> 0, totalMessages |-> 0],
             sid |-> Null, um |-> NoMessage, signal |-> "none",
             timer |-> 0, delay |-> 0, attempts |-> 0, made |-> 0,
             waits |-> <<>>, lastError |-> "none", status |-> 0,
             outcome |-> "none"]

HasSession(ss, id) == \E k \in DOMAIN ss : ss[k].id = id

SessionOf(ss, id) == ss[CHOOSE k \in DOMAIN ss : ss[k].id = id]

SessionIds(ss) == { ss[k].id : k \in DOMAIN ss }

MessageIds(ss) == UNION { { ss[k].messages[j].id : j \in DOMAIN ss[k].messages }
                          : k \in DOMAIN ss }

\* ------------------------------------------------------------ localStorage
\* The item under 'studypal_sessions' is a text: absent, not parseable, or
\* the JSON text of an array (doc), compact as JSON.stringify writes it or
\* formatted otherwise.
NoItem == [kind |-> "none", doc |-> <<>>, fmt |-> "compact"]
Garbage == [kind |-> "garbage", doc |-> <<>>, fmt |-> "compact"]

\* JSON.stringify leaves out a property whose value is undefined
Dropped(v) == IF v = "undefined" THEN "absent" ELSE v

\* reading a property the parsed object does not have yields undefined
Missing(v) == IF v = "absent" THEN "undefined" ELSE v

\* JSON.stringify(value)
Stringify(val) ==
    [kind |-> "json",
     doc |-> [k \in DOMAIN val |->
                [val[k] EXCEPT !.messages =
                    [j \in DOMAIN @ |->
                        [@[j] EXCEPT !.isBookmarked = Dropped(@),
                                     !.isError = Dropped(@)]]]],
     fmt |-> "compact"]

\* JSON.parse(item) of a parseable item
Parse(raw) ==
    [k \in DOMAIN raw.doc |->
        [raw.doc[k] EXCEPT !.messages =
            [j \in DOMAIN @ |->
                [@[j] EXCEPT !.isBookmarked = Missing(@),
                             !.isError = Missing(@)]]]]

\* JSON.parse throws a SyntaxError
ParseThrows(raw) == raw.kind = "garbage"

\* An entry read from the store need not be a session: its id may be
\* something else than a string (modelled by an id that is not positive) and
\* its messages something else than an array (modelled by the one-element
\* sequence NotASequence).
NotASequence == <<[NoMessage EXCEPT !.role = "not-a-sequence"]>>

\* typeof session.id === 'string'
IsStringId(id) == id > Null

\* Array.isArray(session.messages)
IsArray(msgs) == msgs # NotASequence

\* the filter of the sync effect
IsValid(session) == IsStringId(session.id) /\ IsArray(session.messages)

ValidSessions(val) == SelectSeq(val, IsValid)

\* what a value takes of the quota: its sessions and their messages
RECURSIVE Size(_)
Size(val) == IF val = <<>> THEN 0
             ELSE 1 + Len(Head(val).messages) + Size(Tail(val))

\* localStorage.setItem accepts the text of val; otherwise it throws a
\* QuotaExceededError
Fits(val) == Size(val) <= capacity

\* try { ... } catch (error) { console.error(...) } of another kind: what is
\* thrown inside is passed on
CaughtRethrows(threw) == threw

\* try { ... } catch (error) { console.error(...) }: nothing that is thrown
\* inside leaves the block
Caught(threw) == FALSE

\* ---------------------------------------------------- useLocalStorage hook
\* getInitialValue: the parsed item, initialValue ([]) when there is none or
\* when JSON.parse throws
GetInitialValue(raw) ==
    IF raw.kind = "none" THEN <<>>
    ELSE IF ParseThrows(raw) THEN <<>>
    ELSE Parse(raw)

GetInitialValueThrows(raw) == Caught(raw.kind # "none" /\ ParseThrows(raw))

\* [...value].sort((a, b) => b.updatedAt - a.updatedAt): e goes behind the
\* entries that are not older than it (the sort is stable)
InsertByUpdatedAt(sorted, e) ==
    LET n == Cardinality({ k \in DOMAIN sorted :
                             sorted[k].updatedAt >= e.updatedAt })
    IN SubSeq(sorted, 1, n) \o <<e>> \o SubSeq(sorted, n + 1, Len(sorted))

RECURSIVE SortedByUpdatedAt(_)
SortedByUpdatedAt(val) ==
    IF val = <<>> THEN <<>>
    ELSE InsertByUpdatedAt(SortedByUpdatedAt(SubSeq(val, 1, Len(val) - 1)),
                           val[Len(val)])

\* sortedSessions.slice(0, 9): one session too few
TrimmedSessionsOneShort(val) ==
    SubSeq(SortedByUpdatedAt(val), 1, KEEP_SESSIONS - 1)

\* sortedSessions.slice(0, 10)
TrimmedSessions(val) == SubSeq(SortedByUpdatedAt(val), 1, KEEP_SESSIONS)

\* handleQuotaExceeded(key, value) for the sessions key: the item afterwards
HandleQuotaExceeded(cur, val) ==
    IF Len(val) > KEEP_SESSIONS
    THEN IF Fits(TrimmedSessions(val)) THEN Stringify(TrimmedSessions(val))
         ELSE cur
    ELSE cur

HandleQuotaExceededThrows(val) ==
    Caught(Len(val) > KEEP_SESSIONS /\ ~Fits(TrimmedSessions(val)))

\* handleQuotaExceeded: localStorage.removeItem('studypal_progress') unless
\* the sessions were trimmed
ProgressItemAfter(snap, val, item) ==
    IF Stringify(val) = Stringify(snap) \/ Fits(val) THEN item
    ELSE IF Len(val) > KEEP_SESSIONS THEN item
    ELSE FALSE

\* setValue of the progress key: a changed value is written to the item
SetProgressItem(snap, val, item) == IF val = snap THEN item ELSE TRUE

\* setValue, the immediate localStorage.setItem and its catch
ImmediateSave(cur, val) ==
    IF Fits(val) THEN Stringify(val) ELSE HandleQuotaExceeded(cur, val)

\* a sync effect that never writes the item
SyncEffectNoWrite(cur, val) == cur

\* the sync effect after storedValue became val: invalid entries are
\* filtered out of the state first, the next run writes the item; a setItem
\* that throws is logged
SyncEffect(cur, val) ==
    IF Fits(ValidSessions(val)) THEN Stringify(ValidSessions(val)) ELSE cur

SyncEffectThrows(val) == Caught(~Fits(ValidSessions(val)))

\* setValue, in-memory part: value(storedValue) is compared with the
\* storedValue of the closure; an unchanged value is not stored.
SetState(snap, cur, val) ==
    IF val = snap THEN cur ELSE IF mounted THEN val ELSE cur

\* setValue of the sessions key, in-memory part, with the sync effect that
\* follows the state change
SetSessions(snap, cur, val) ==
    IF Stringify(val) = Stringify(snap) THEN cur
    ELSE IF mounted THEN ValidSessions(val) ELSE cur

\* a setValue that writes the item also when the value has not changed
SetStoreNoSkip(snap, cur, val) ==
    IF mounted THEN SyncEffect(ImmediateSave(cur, val), val)
    ELSE ImmediateSave(cur, val)

\* setValue of the sessions key, the item afterwards (the hook's own
\* isMounted ref is never reset, so the immediate write also happens after
\* the component is gone; the effect runs while it is mounted)
SetStore(snap, cur, val) ==
    IF Stringify(val) = Stringify(snap) THEN cur
    ELSE IF mounted THEN SyncEffect(ImmediateSave(cur, val), val)
    ELSE ImmediateSave(cur, val)

SetValueThrows(snap, val) ==
    Caught(Stringify(val) # Stringify(snap) /\ ~Fits(val)
           /\ HandleQuotaExceededThrows(val))

\* what became of a setValue: not stored because unchanged, written, or
\* rejected by the store
SetOutcome(snap, val) ==
    IF Stringify(val) = Stringify(snap) THEN "skipped"
    ELSE IF Fits(val) THEN "stored" ELSE "rejected"

\* --------------------------------------------- functional updates of useChat
\* createNewSession: newSession and [newSession, ...prevSessions]
NewSession(id, t) ==
    [id |-> id, title |-> NEW_CHAT, messages |-> <<>>, createdAt |-> t,
     updatedAt |-> t]

PrependSession(prev, s) == <<s>> \o prev

\* a user append that does not look whether the session exists
UserAppendNoExistsCheck(prev, sid, um, content, t) ==
    <<[id |-> sid, title |-> TitleOf(content), messages |-> <<um>>,
       createdAt |-> t, updatedAt |-> t]>> \o prev

\* sendMessage, first setSessions: the optimistic user append
UserAppend(prev, sid, um, content, t) ==
    IF ~HasSession(prev, sid)
    THEN <<[id |-> sid, title |-> TitleOf(content), messages |-> <<um>>,
            createdAt |-> t, updatedAt |-> t]>> \o prev
    ELSE [k \in DOMAIN prev |->
            IF prev[k].id = sid
            THEN [prev[k] EXCEPT
                    !.messages = Append(@, um),
                    !.updatedAt = t,
                    !.title = IF Len(prev[k].messages) = 0
                              THEN TitleOf(content) ELSE @]
            ELSE prev[k]]

\* hasUserMessage: by id, or by role 'user' and identical content
HasUserMessage(msgs, um) ==
    \E j \in DOMAIN msgs :
        \/ msgs[j].id = um.id
        \/ (msgs[j].role = "user" /\ msgs[j].content = um.content)

\* existing messages, the user message unless already there, then m
WithReply(msgs, um, m) ==
    msgs \o (IF HasUserMessage(msgs, um) THEN <<>> ELSE <<um>>) \o <<m>>

\* sendMessage, setSessions on success
AssistantAppend(prev, sid, um, am, t) ==
    IF ~HasSession(prev, sid)
    THEN prev
    ELSE [k \in DOMAIN prev |->
            IF prev[k].id = sid
            THEN [prev[k] EXCEPT !.messages = WithReply(@, um, am),
                                 !.updatedAt = t]
            ELSE prev[k]]

\* sendMessage, setSessions in catch (apiError)
ErrorAppend(prev, sid, um, em, t) ==
    [k \in DOMAIN prev |->
        IF prev[k].id = sid
        THEN [prev[k] EXCEPT !.messages = WithReply(@, um, em),
                             !.updatedAt = t]
        ELSE prev[k]]

\* deleteSession: prev.filter(session.id !== sessionId)
RemoveSession(prev, sid) == SelectSeq(prev, LAMBDA s : s.id # sid)

\* !message.isBookmarked
FlipBookmark(b) == IF b = "true" THEN "false" ELSE "true"

\* toggleMessageBookmark flipping the flag of every message of the session
\* that holds the message
ToggleBookmarkWholeSession(prev, mid) ==
    [k \in DOMAIN prev |->
        [prev[k] EXCEPT !.messages =
            [j \in DOMAIN @ |->
                IF \E h \in DOMAIN @ : @[h].id = mid
                THEN [@[j] EXCEPT !.isBookmarked = FlipBookmark(@)]
                ELSE @[j]]]]

\* toggleMessageBookmark
ToggleBookmark(prev, mid) ==
    [k \in DOMAIN prev |->
        [prev[k] EXCEPT !.messages =
            [j \in DOMAIN @ |->
                IF @[j].id = mid
                THEN [@[j] EXCEPT !.isBookmarked = FlipBookmark(@)]
                ELSE @[j]]]]

\* updateSessionTitle
Rename(prev, sid, title, t) ==
    [k \in DOMAIN prev |->
        IF prev[k].id = sid
        THEN [prev[k] EXCEPT !.title = Trim(title), !.updatedAt = t]
        ELSE prev[k]]

\* setProgressStats of createNewSession
StatsSessionCreated(prev) ==
    [prev EXCEPT !.totalSessions = @ + 1]

\* setProgressStats of sendMessage on success
StatsExchange(prev) ==
    [prev EXCEPT !.totalMessages = @ + 2]

\* ------------------------------------------------------------- retry policy
\* RETRY_DELAY * Math.pow(2, attempts - 1)
BackoffDelay(attempts) == RETRY_DELAY * 2 ^ (attempts - 1)

\* a retry loop that allows one attempt too many
MayRetryOffByOne(attempts) == attempts <= MAX_RETRIES + 1

\* while (attempts <= maxRetries) / if (attempts <= maxRetries)
MayRetry(attempts) == attempts <= MAX_RETRIES

\* ------------------------------------------------------ responses and errors
R_OK == [status |-> 200, json |-> TRUE, error |-> "", message |-> "reply"]
R_NoMessage == [status |-> 200, json |-> TRUE, error |-> "", message |-> ""]
R_Unparseable == [status |-> 200, json |-> FALSE, error |-> "", message |-> ""]
R_429 == [status |-> 429, json |-> TRUE,
          error |-> "Rate limit exceeded. Please try again later.",
          message |-> ""]
R_503 == [status |-> 503, json |-> TRUE, error |-> "AI service error",
          message |-> "fallback"]
R_502 == [status |-> 502, json |-> FALSE, error |-> "", message |-> ""]

Responses == {R_OK, R_NoMessage, R_Unparseable, R_429}

\* response.ok
Ok(r) == r.status >= 200 /\ r.status <= 299

\* the message of the Error thrown while handling a response, "" when none
ResponseError(r) ==
    IF ~Ok(r)
    THEN IF r.json /\ r.error # "" THEN r.error
         ELSE "Server error: " \o ToString(r.status)
    ELSE IF ~r.json THEN "Failed to parse server response"
    ELSE IF r.error # "" THEN r.error
    ELSE IF r.message = "" THEN "Response missing message content"
    ELSE ""

\* what fetch throws: a TypeError whose message contains 'network', another
\* TypeError, the abort reason of the timeout, or an AbortError
NetworkThrows == {"TypeError: network failure", "TypeError: Failed to fetch"}

AbortThrow(signal) ==
    IF signal = "timeout" THEN "Request timeout" ELSE "AbortError"

\* apiError instanceof TypeError && apiError.message.includes('network')
IsNetworkTypeError(e) == e = "TypeError: network failure"

ExposedError(e) == IF IsNetworkTypeError(e) THEN NETWORK_ERROR_TEXT ELSE e

\* useState setters do nothing once the component is unmounted
SetFlag(cur, val) == IF mounted THEN val ELSE cur

\* abortControllerRef.current.abort() and clearTimeout(timeoutIdRef.current)
AbortAndClear(sends, a, t) ==
    [k \in DOMAIN sends |->
        [sends[k] EXCEPT
            !.signal = IF k = a /\ @ = "live" THEN "abort" ELSE @,
            !.timer = IF k = t THEN 0 ELSE @]]

\* clearTimeout(timeoutIdRef.current) alone
ClearTimer(sends, t) ==
    [k \in DOMAIN sends |-> [sends[k] EXCEPT !.timer = IF k = t THEN 0 ELSE @]]

\* ------------------------------------------------------------ sendMessage
\* lines 371-475: user message, optimistic append, loading flag, controller,
\* timeout and the first call of makeRequest (fetch is called synchronously)
Dispatch(i, base) ==
    LET s == base[i]
        um == [id |-> nextId, content |-> Trim(s.content), role |-> "user",
               timestamp |-> now, isBookmarked |-> "undefined",
               isError |-> "undefined"]
        val == UserAppend(s.snapS, s.sid, um, s.content, now)
    IN /\ sessions' = SetSessions(s.snapS, sessions, val)
       /\ store' = SetStore(s.snapS, store, val)
       /\ progressItem' = ProgressItemAfter(s.snapS, val, progressItem)
       /\ isLoading' = SetFlag(isLoading, TRUE)
       /\ error' = SetFlag(error, NoError)
       /\ abortControllerRef' = i
       /\ timeoutIdRef' = i
       /\ nextId' = nextId + 1
       /\ send' = [base EXCEPT ![i] =
                     [@ EXCEPT !.pc = "fetch", !.um = um, !.signal = "live",
                               !.timer = API_TIMEOUT, !.delay = 0, !.made = 1]]

\* lines 511-597 (e = "") or 598-662 (e the message of apiError), then the
\* finally block 666-670
Complete(i, base, e, text) ==
    LET s == base[i]
        m == [id |-> nextId,
              content |-> IF e = "" THEN <<text>> ELSE APOLOGY,
              role |-> "assistant", timestamp |-> now,
              isBookmarked |-> "undefined",
              isError |-> IF e = "" THEN "undefined" ELSE "true"]
        val == IF e = ""
               THEN AssistantAppend(s.snapS, s.sid, s.um, m, now)
               ELSE ErrorAppend(s.snapS, s.sid, s.um, m, now)
    IN /\ sessions' = SetSessions(s.snapS, sessions, val)
       /\ store' = SetStore(s.snapS, store, val)
       /\ progressStats' =
            IF e = ""
            THEN SetState(s.snapP, progressStats, StatsExchange(s.snapP))
            ELSE progressStats
       /\ progressItem' =
            IF e = ""
            THEN SetProgressItem(s.snapP, StatsExchange(s.snapP),
                    ProgressItemAfter(s.snapS, val, progressItem))
            ELSE ProgressItemAfter(s.snapS, val, progressItem)
       /\ error' = IF e = "" THEN error ELSE SetFlag(error, ExposedError(e))
       /\ isLoading' = SetFlag(isLoading, FALSE)
       /\ abortControllerRef' = Null
       /\ nextId' = nextId + 1
       /\ send' = [base EXCEPT ![i] =
                     [@ EXCEPT !.pc = "done", !.delay = 0,
                               !.outcome = IF e = "" THEN "succeeded"
                                           ELSE "failed"]]

\* retryApiCall, catch: count the attempt, back off or rethrow into the
\* catch (apiError) of sendMessage
Thrown(i, base, e) ==
    LET n == base[i].attempts + 1
        b == [base EXCEPT ![i] = [@ EXCEPT !.attempts = n, !.lastError = e]]
    IN IF MayRetry(n)
       THEN /\ send' = [b EXCEPT ![i] =
                          [@ EXCEPT !.pc = "backoff",
                                    !.delay = BackoffDelay(n),
                                    !.waits = Append(@, BackoffDelay(n))]]
            /\ UNCHANGED <<sessions, store, progressItem, progressStats,
                           isLoading, error, abortControllerRef,
                           timeoutIdRef, nextId>>
       ELSE /\ timeoutIdRef' = Null
            /\ Complete(i, ClearTimer(b, timeoutIdRef), e, "")

\* first idle slot: the next sendMessage call
NextSend == CHOOSE i \in SendIds : send[i].pc = "idle" /\
                \A j \in SendIds : send[j].pc = "idle" => i <= j

\* sendMessage(content) with non-empty trimmed content, up to its first await
StartSend(c) ==
    /\ mounted
    /\ \E i \in SendIds : send[i].pc = "idle"
    /\ Trim(c) # <<>>
    /\ LET i == NextSend
           hasCur == currentSessionId # Null /\
                     HasSession(sessions, currentSessionId)
           s1 == AbortAndClear(send, abortControllerRef, timeoutIdRef)
           s2 == [s1 EXCEPT ![i] =
                    [@ EXCEPT !.content = c, !.snapS = sessions,
                              !.snapP = progressStats,
                              !.sid = IF hasCur THEN currentSessionId
                                      ELSE nextId]]
       IN IF hasCur
          THEN /\ Dispatch(i, s2)
               /\ UNCHANGED <<progressStats, currentSessionId>>
          ELSE \* createNewSession, then await the 50 ms settle delay
               LET val == PrependSession(sessions, NewSession(nextId, now))
               IN /\ sessions' = SetSessions(sessions, sessions, val)
                  /\ store' = SetStore(sessions, store, val)
                  /\ currentSessionId' = nextId
                  /\ progressStats' = SetState(progressStats, progressStats,
                                        StatsSessionCreated(progressStats))
                  /\ progressItem' =
                        SetProgressItem(progressStats,
                            StatsSessionCreated(progressStats),
                            ProgressItemAfter(sessions, val, progressItem))
                  /\ nextId' = nextId + 1
                  /\ send' = [s2 EXCEPT ![i] =
                                [@ EXCEPT !.pc = "settle",
                                          !.delay = SETTLE_DELAY]]
                  /\ UNCHANGED <<isLoading, error, abortControllerRef,
                                 timeoutIdRef>>
    /\ UNCHANGED <<mounted, now, ops, warned, removed>>
    /\ UNCHANGED <<storeVars, proxyVars>>

\* sendMessage validating its content only after the cleanup of the previous
\* request
EmptySendAfterCleanup(c) ==
    /\ mounted
    /\ ops < MaxOps
    /\ Trim(c) = <<>>
    /\ warned' = warned + 1
    /\ UNCHANGED removed
    /\ ops' = ops + 1
    /\ send' = AbortAndClear(send, abortControllerRef, timeoutIdRef)
    /\ UNCHANGED <<sessions, store, progressItem, progressStats,
                   currentSessionId,
                   isLoading, error, mounted, abortControllerRef,
                   timeoutIdRef, nextId, now>>
    /\ UNCHANGED <<storeVars, proxyVars>>

\* sendMessage with empty or whitespace-only content
EmptySend(c) ==
    /\ mounted
    /\ ops < MaxOps
    /\ Trim(c) = <<>>
    /\ warned' = warned + 1
    /\ UNCHANGED removed
    /\ ops' = ops + 1
    /\ UNCHANGED <<sessions, store, progressItem, progressStats,
                   currentSessionId,
                   isLoading, error, mounted, abortControllerRef,
                   timeoutIdRef, send, nextId, now>>
    /\ UNCHANGED <<storeVars, proxyVars>>

\* the settle delay has elapsed
AfterSettle(i) ==
    /\ send[i].pc = "settle"
    /\ Dispatch(i, send)
    /\ UNCHANGED <<progressStats, currentSessionId, mounted, now, ops, warned,
                   removed>>
    /\ UNCHANGED <<storeVars, proxyVars>>

\* fetch resolves with a response r
FetchResponse(i, r) ==
    /\ send[i].pc = "fetch"
    /\ send[i].signal = "live"
    /\ timeoutIdRef' = Null
    /\ Complete(i, [send EXCEPT ![i] = [@ EXCEPT !.timer = 0,
                                                 !.status = r.status]],
                ResponseError(r), r.message)
    /\ UNCHANGED <<currentSessionId, mounted, now, ops, warned, removed>>
    /\ UNCHANGED <<storeVars, proxyVars>>

\* fetch rejects: a transport failure, or the signal was aborted
FetchThrow(i, e) ==
    /\ send[i].pc = "fetch"
    /\ e \in (IF send[i].signal = "live" THEN NetworkThrows
              ELSE {AbortThrow(send[i].signal)})
    /\ Thrown(i, send, e)
    /\ UNCHANGED <<currentSessionId, mounted, now, ops, warned, removed>>
    /\ UNCHANGED <<storeVars, proxyVars>>

\* the backoff delay has elapsed: the loop calls requestFn again; fetch on
\* an aborted signal rejects at once
BackoffDone(i) ==
    /\ send[i].pc = "backoff"
    /\ LET b == [send EXCEPT ![i] = [@ EXCEPT !.made = @ + 1, !.delay = 0]]
       IN IF send[i].signal = "live"
          THEN /\ send' = [b EXCEPT ![i].pc = "fetch"]
               /\ UNCHANGED <<sessions, store, progressItem, progressStats,
                              isLoading, error, abortControllerRef,
                              timeoutIdRef, nextId>>
          ELSE Thrown(i, b, AbortThrow(send[i].signal))
    /\ UNCHANGED <<currentSessionId, mounted, now, ops, warned, removed>>
    /\ UNCHANGED <<storeVars, proxyVars>>

\* the API_TIMEOUT timer of send i fires
Timeout(i) ==
    /\ send[i].timer # 0
    /\ send' = [send EXCEPT ![i] =
                  [@ EXCEPT !.timer = 0,
                            !.signal = IF @ = "live" THEN "timeout" ELSE @]]
    /\ UNCHANGED <<sessions, store, progressItem, progressStats,
                   currentSessionId,
                   isLoading, error, mounted, abortControllerRef,
                   timeoutIdRef, nextId, now, ops, warned, removed>>
    /\ UNCHANGED <<storeVars, proxyVars>>

\* ------------------------------------------------------------ UI callbacks
\* createNewSession called from the UI
CreateNewSession ==
    /\ mounted
    /\ ops < MaxOps
    /\ LET val == PrependSession(sessions, NewSession(nextId, now))
       IN /\ sessions' = SetSessions(sessions, sessions, val)
          /\ store' = SetStore(sessions, store, val)
    /\ currentSessionId' = nextId
    /\ progressStats' = SetState(progressStats, progressStats,
                                 StatsSessionCreated(progressStats))
    /\ progressItem' =
          SetProgressItem(progressStats, StatsSessionCreated(progressStats),
              ProgressItemAfter(sessions,
                  PrependSession(sessions, NewSession(nextId, now)),
                  progressItem))
    /\ nextId' = nextId + 1
    /\ ops' = ops + 1
    /\ UNCHANGED <<isLoading, error, mounted, abortControllerRef,
                   timeoutIdRef, send, now, warned, removed>>
    /\ UNCHANGED <<storeVars, proxyVars>>

\* deleteSession(sid)
DeleteSession(sid) ==
    /\ mounted
    /\ ops < MaxOps
    /\ LET val == RemoveSession(sessions, sid)
       IN /\ sessions' = SetSessions(sessions, sessions, val)
          /\ store' = SetStore(sessions, store, val)
          /\ progressItem' = ProgressItemAfter(sessions, val, progressItem)
    /\ currentSessionId' = IF currentSessionId = sid THEN Null
                           ELSE currentSessionId
    /\ removed' = IF HasSession(sessions, sid) THEN removed \cup {sid}
                  ELSE removed
    /\ ops' = ops + 1
    /\ UNCHANGED <<progressStats, isLoading, error, mounted,
                   abortControllerRef, timeoutIdRef, send, nextId, now, warned>>
    /\ UNCHANGED <<storeVars, proxyVars>>

\* loadSession(sid)
LoadSession(sid) ==
    /\ mounted
    /\ ops < MaxOps
    /\ IF HasSession(sessions, sid)
       THEN currentSessionId' = sid /\ error' = error
       ELSE currentSessionId' = currentSessionId /\ error' = SESSION_NOT_FOUND
    /\ ops' = ops + 1
    /\ UNCHANGED <<sessions, store, progressItem, progressStats, isLoading,
                   mounted,
                   abortControllerRef, timeoutIdRef, send, nextId, now, warned,
                   removed>>
    /\ UNCHANGED <<storeVars, proxyVars>>

\* toggleMessageBookmark(mid)
ToggleMessageBookmark(mid) ==
    /\ mounted
    /\ ops < MaxOps
    /\ LET val == ToggleBookmark(sessions, mid)
       IN /\ sessions' = SetSessions(sessions, sessions, val)
          /\ store' = SetStore(sessions, store, val)
          /\ progressItem' = ProgressItemAfter(sessions, val, progressItem)
    /\ ops' = ops + 1
    /\ UNCHANGED <<progressStats, currentSessionId, isLoading, error, mounted,
                   abortControllerRef, timeoutIdRef, send, nextId, now, warned,
                   removed>>
    /\ UNCHANGED <<storeVars, proxyVars>>

\* clearAllSessions
ClearAllSessions ==
    /\ mounted
    /\ ops < MaxOps
    /\ sessions' = SetSessions(sessions, sessions, <<>>)
    /\ store' = SetStore(sessions, store, <<>>)
    /\ progressItem' = ProgressItemAfter(sessions, <<>>, progressItem)
    /\ currentSessionId' = Null
    /\ removed' = removed \cup { sessions[k].id : k \in DOMAIN sessions }
    /\ ops' = ops + 1
    /\ UNCHANGED <<progressStats, isLoading, error, mounted,
                   abortControllerRef, timeoutIdRef, send, nextId, now, warned>>
    /\ UNCHANGED <<storeVars, proxyVars>>

\* updateSessionTitle(sid, title)
UpdateSessionTitle(sid, title) ==
    /\ mounted
    /\ ops < MaxOps
    /\ Trim(title) # <<>>
    /\ LET val == Rename(sessions, sid, title, now)
       IN /\ sessions' = SetSessions(sessions, sessions, val)
          /\ store' = SetStore(sessions, store, val)
          /\ progressItem' = ProgressItemAfter(sessions, val, progressItem)
    /\ ops' = ops + 1
    /\ UNCHANGED <<progressStats, currentSessionId, isLoading, error, mounted,
                   abortControllerRef, timeoutIdRef, send, nextId, now, warned,
                   removed>>
    /\ UNCHANGED <<storeVars, proxyVars>>

\* cleanup of the mount effect: abort the pending request, clear the timer
Unmount ==
    /\ mounted
    /\ ops < MaxOps
    /\ ops' = ops + 1
    /\ mounted' = FALSE
    /\ send' = AbortAndClear(send, abortControllerRef, timeoutIdRef)
    /\ UNCHANGED <<sessions, store, progressItem, progressStats,
                   currentSessionId,
                   isLoading, error, abortControllerRef, timeoutIdRef,
                   nextId, now, warned, removed>>
    /\ UNCHANGED <<storeVars, proxyVars>>

\* the clock advances
Tick ==
    /\ now < MaxNow
    /\ ops < MaxOps
    /\ ops' = ops + 1
    /\ now' = now + 1
    /\ UNCHANGED <<sessions, store, progressItem, progressStats,
                   currentSessionId,
                   isLoading, error, mounted, abortControllerRef,
                   timeoutIdRef, send, nextId, warned, removed>>
    /\ UNCHANGED <<storeVars, proxyVars>>

\* ------------------------------------------------- the storage hook alone
\* what a page load may find under 'studypal_sessions'
Session(id, t, msgs) ==
    [id |-> id, title |-> NEW_CHAT, messages |-> msgs, createdAt |-> t,
     updatedAt |-> t]

StoredUserMessage ==
    [id |-> 20, content |-> <<"a">>, role |-> "user", timestamp |-> 1,
     isBookmarked |-> "undefined", isError |-> "undefined"]

OneSession == <<Session(1, 1, <<StoredUserMessage>>)>>

\* eleven sessions, not in the order of their updatedAt
Stamps == <<5, 11, 2, 8, 1, 10, 4, 7, 3, 9, 6>>
ElevenSessions == [k \in 1..11 |-> Session(k, Stamps[k], <<>>)]

\* a session between an entry without a string id and one without messages
WithInvalidEntries ==
    <<Session(Null, 1, <<>>), Session(1, 2, <<>>), Session(2, 3, NotASequence)>>

PersistedItems ==
    { NoItem, Garbage, Stringify(OneSession),
      [Stringify(OneSession) EXCEPT !.fmt = "pretty"],
      Stringify(ElevenSessions), Stringify(WithInvalidEntries) }

Unlimited == 1000
Capacities == {3, 9, 11, Unlimited}
FirstFreshId == 30
LoadTime == 12

\* the values useChat passes to setSessions that do not depend on a send
Updates(prev) ==
    { PrependSession(prev, NewSession(nextId, now)), <<>>, prev }
    \cup { RemoveSession(prev, sid) :
             sid \in { id \in SessionIds(prev) : IsStringId(id) } }

\* setValue(val) of useChatSessions, with the effect that follows
SetValue(val) ==
    /\ mounted
    /\ writes < MaxWrites
    /\ sessions' = SetSessions(sessions, sessions, val)
    /\ store' = SetStore(sessions, store, val)
    /\ progressItem' = ProgressItemAfter(sessions, val, progressItem)
    /\ lastOp' = SetOutcome(sessions, val)
    /\ lastValue' = val
    /\ raised' = (raised \/ SetValueThrows(sessions, val)
                         \/ (Stringify(val) # Stringify(sessions)
                             /\ SyncEffectThrows(val)))
    /\ writes' = writes + 1
    /\ nextId' = nextId + 1
    /\ now' = now + 1
    /\ UNCHANGED <<progressStats, currentSessionId, isLoading, error, mounted,
                   abortControllerRef, timeoutIdRef, send, ops, warned, removed,
                   capacity>>
    /\ UNCHANGED proxyVars

\* the page is loaded again: useState(getInitialValue) of a new mount
Reload ==
    /\ writes < MaxWrites
    /\ sessions' = GetInitialValue(store)
    /\ lastOp' = "load"
    /\ raised' = (raised \/ GetInitialValueThrows(store))
    /\ writes' = writes + 1
    /\ UNCHANGED <<store, progressItem, progressStats, currentSessionId,
                   isLoading, error, mounted, abortControllerRef,
                   timeoutIdRef, send, nextId, now, ops, warned, removed,
                   capacity,
                   lastValue>>
    /\ UNCHANGED proxyVars

vars == <<clientVars, proxyVars>>

\* ------------------------------------------------------------ proxy endpoint
UNKNOWN_IP == "unknown-ip"
\* values of the x-forwarded-for header ("" when absent)
Headers == {"", "10.0.0.1"}
IPs == {UNKNOWN_IP, "10.0.0.1"}

NoEntry == [count |-> 0, timestamp |-> 0 - 1]

\* request.headers.get('x-forwarded-for') || 'unknown-ip'
ClientIp(h) == IF h = "" THEN UNKNOWN_IP ELSE h

\* a limiter that forgets to store the incremented count
RateMapAfterNoIncrement(m, ip, t) ==
    IF m[ip] = NoEntry
    THEN [m EXCEPT ![ip] = [count |-> 1, timestamp |-> t]]
    ELSE IF t - m[ip].timestamp > RATE_LIMIT_WINDOW
    THEN [m EXCEPT ![ip] = [count |-> 1, timestamp |-> t]]
    ELSE m

\* a limiter whose rejected requests restart the window
RateMapAfterSliding(m, ip, t) ==
    IF m[ip] = NoEntry
    THEN [m EXCEPT ![ip] = [count |-> 1, timestamp |-> t]]
    ELSE IF t - m[ip].timestamp > RATE_LIMIT_WINDOW
    THEN [m EXCEPT ![ip] = [count |-> 1, timestamp |-> t]]
    ELSE IF m[ip].count + 1 > MAX_REQUESTS_PER_WINDOW
    THEN [m EXCEPT ![ip] = [count |-> @.count + 1, timestamp |-> t]]
    ELSE [m EXCEPT ![ip].count = @ + 1]

\* isRateLimited: the map after the call
RateMapAfter(m, ip, t) ==
    IF m[ip] = NoEntry
    THEN [m EXCEPT ![ip] = [count |-> 1, timestamp |-> t]]
    ELSE IF t - m[ip].timestamp > RATE_LIMIT_WINDOW
    THEN [m EXCEPT ![ip] = [count |-> 1, timestamp |-> t]]
    ELSE [m EXCEPT ![ip].count = @ + 1]

\* a limiter that rejects from the 5th request on
IsRateLimitedOffByOne(m, ip, t) ==
    IF m[ip] = NoEntry THEN FALSE
    ELSE IF t - m[ip].timestamp > RATE_LIMIT_WINDOW THEN FALSE
    ELSE m[ip].count + 1 >= MAX_REQUESTS_PER_WINDOW

\* isRateLimited: its result
IsRateLimited(m, ip, t) ==
    IF m[ip] = NoEntry THEN FALSE
    ELSE IF t - m[ip].timestamp > RATE_LIMIT_WINDOW THEN FALSE
    ELSE m[ip].count + 1 > MAX_REQUESTS_PER_WINDOW

\* a sweep that deletes every entry whose window has run out
SweptAfterOneWindow(m, t) ==
    [ip \in DOMAIN m |->
        IF m[ip] # NoEntry /\ t - m[ip].timestamp >= RATE_LIMIT_WINDOW
        THEN NoEntry ELSE m[ip]]

\* the setInterval sweep: entries older than 5 windows are deleted
Swept(m, t) ==
    [ip \in DOMAIN m |->
        IF m[ip] # NoEntry /\ t - m[ip].timestamp > RATE_LIMIT_WINDOW * SWEEP_WINDOWS
        THEN NoEntry ELSE m[ip]]

\* messages of the errors sendChatMessage throws, as word sequences
MSG_BUSY == <<"The", "AI", "service", "is", "currently", "busy.", "Please",
              "try", "again", "in", "a", "moment.">>
MSG_AUTH == <<"Authentication", "error", "with", "AI", "service.">>
MSG_UNAVAILABLE == <<"AI", "service", "is", "temporarily", "unavailable.">>
MSG_TIMED_OUT == <<"Request", "timed", "out.", "Please", "try", "again.">>
MSG_NETWORK == <<"Network", "error", "connecting", "to", "AI", "service.">>
MSG_NO_CHOICES == <<"No", "response", "generated", "from", "the", "AI", "model">>
\* a provider-supplied error text of another 4xx answer
MSG_PROVIDER == <<"free", "tier", "rate", "limit", "reached">>

\* outcomes of the provider call
Upstreams == {"ok", "http429", "http500", "http400", "timeout"}

\* sendChatMessage: the message of the error it throws, <<>> when it returns
UpstreamError(u) ==
    CASE u = "ok" -> <<>>
      [] u = "http429" -> MSG_BUSY
      [] u = "http401" -> MSG_AUTH
      [] u = "http500" -> MSG_UNAVAILABLE
      [] u = "http400" -> MSG_PROVIDER
      [] u = "nochoices" -> MSG_NO_CHOICES
      [] u = "timeout" -> MSG_TIMED_OUT
      [] OTHER -> MSG_NETWORK

\* String.prototype.includes on word sequences
Includes(msg, needle) ==
    \E k \in 0..(Len(msg) - Len(needle)) :
        SubSeq(msg, k + 1, k + Len(needle)) = needle

\* bodies of a request: not JSON, no messages field, messages that is not
\* an array, an empty array, or n messages
Bodies == {"badjson", "nomessages", "notarray", "empty", "valid"}

\* a handler that looks for the API key before it validates the body
HandleKeyFirst(body, hasKey, u) ==
    IF body = "badjson"
    THEN [status |-> 500, error |-> "Internal server error",
          message |-> "technical difficulties", upstream |-> FALSE]
    ELSE IF ~hasKey
    THEN [status |-> 200, error |-> "", message |-> "fallback",
          upstream |-> FALSE]
    ELSE IF body \in {"nomessages", "notarray", "empty"}
    THEN [status |-> 400, error |-> "Valid messages array is required",
          message |-> "", upstream |-> FALSE]
    ELSE IF UpstreamError(u) = <<>>
    THEN [status |-> 200, error |-> "", message |-> "reply", upstream |-> TRUE]
    ELSE IF \/ Includes(UpstreamError(u), <<"rate", "limit">>)
            \/ Includes(UpstreamError(u), <<"too", "many", "requests">>)
    THEN [status |-> 429,
          error |-> "Rate limit exceeded. Please try again in a moment.",
          message |-> "", upstream |-> TRUE]
    ELSE [status |-> 503, error |-> "AI service error",
          message |-> "fallback", upstream |-> TRUE]

\* the response of POST once the rate limiter has let the request pass
Handle(body, hasKey, u) ==
    IF body = "badjson"
    THEN [status |-> 500, error |-> "Internal server error",
          message |-> "technical difficulties", upstream |-> FALSE]
    ELSE IF body \in {"nomessages", "notarray", "empty"}
    THEN [status |-> 400, error |-> "Valid messages array is required",
          message |-> "", upstream |-> FALSE]
    ELSE IF ~hasKey
    THEN [status |-> 200, error |-> "", message |-> "fallback",
          upstream |-> FALSE]
    ELSE IF UpstreamError(u) = <<>>
    THEN [status |-> 200, error |-> "", message |-> "reply", upstream |-> TRUE]
    ELSE IF \/ Includes(UpstreamError(u), <<"rate", "limit">>)
            \/ Includes(UpstreamError(u), <<"too", "many", "requests">>)
    THEN [status |-> 429,
          error |-> "Rate limit exceeded. Please try again in a moment.",
          message |-> "", upstream |-> TRUE]
    ELSE [status |-> 503, error |-> "AI service error",
          message |-> "fallback", upstream |-> TRUE]

\* requests and their environment: a body, whether OPENROUTER_API_KEY is
\* set, and what the provider would answer (one outcome stands for all
\* where the provider is not called)
Requests ==
    { q \in [body : Bodies, hasKey : BOOLEAN, u : Upstreams] :
        (q.body # "valid" \/ ~q.hasKey) => q.u = "ok" }

RATE_LIMITED == [status |-> 429,
                 error |-> "Rate limit exceeded. Please try again later.",
                 message |-> "", upstream |-> FALSE]

NoResponse == [status |-> 0, error |-> "", message |-> "", upstream |-> FALSE]

NoRequest == [ip |-> "", body |-> "", hasKey |-> FALSE, u |-> ""]

PostCount == Len(posts[UNKNOWN_IP]) + Len(posts["10.0.0.1"])

ProxyInit ==
    /\ ipRequests = [ip \in IPs |-> NoEntry]
    /\ srvNow = 0
    /\ posts = [ip \in IPs |-> <<>>]
    /\ lastResponse = NoResponse
    /\ lastRequest = NoRequest
    /\ advances = 0

\* POST /api/chat
POST(h, body, hasKey, u) ==
    /\ PostCount < MaxPosts
    /\ LET ip == ClientIp(h)
           limited == IsRateLimited(ipRequests, ip, srvNow)
           m == RateMapAfter(ipRequests, ip, srvNow)
       IN /\ ipRequests' = m
          /\ posts' = [posts EXCEPT ![ip] =
                         Append(@, [t |-> srvNow, limited |-> limited,
                                    win |-> m[ip].timestamp])]
          /\ lastResponse' = IF limited THEN RATE_LIMITED
                             ELSE Handle(body, hasKey, u)
          /\ lastRequest' = [ip |-> ip, body |-> body, hasKey |-> hasKey,
                             u |-> u]
    /\ UNCHANGED <<srvNow, advances>>
    /\ UNCHANGED clientVars

\* the 5-minute sweep
Cleanup ==
    /\ ipRequests' = Swept(ipRequests, srvNow)
    /\ ipRequests' # ipRequests
    /\ UNCHANGED <<srvNow, posts, lastResponse, lastRequest, advances>>
    /\ UNCHANGED clientVars

\* time passes at the proxy
TimeSteps == {1, RATE_LIMIT_WINDOW, RATE_LIMIT_WINDOW * SWEEP_WINDOWS}

Advance(d) ==
    /\ advances < MaxAdvances
    /\ advances' = advances + 1
    /\ srvNow' = srvNow + d
    /\ UNCHANGED <<ipRequests, posts, lastResponse, lastRequest>>
    /\ UNCHANGED clientVars

\* ------------------------------------------------------------ specifications
ClientInit ==
    /\ sessions = <<>>
    /\ store = NoItem
    /\ progressItem = FALSE
    /\ capacity = Unlimited
    /\ writes = 0
    /\ lastOp = "load"
    /\ lastValue = <<>>
    /\ raised = FALSE
    /\ progressStats = [totalSessions |-> 0, totalMessages |-> 0]
    /\ currentSessionId = Null
    /\ isLoading = FALSE
    /\ error = NoError
    /\ mounted = TRUE
    /\ abortControllerRef = Null
    /\ timeoutIdRef = Null
    /\ send = [i \in SendIds |-> IdleSend]
    /\ nextId = 1
    /\ now = 0
    /\ ops = 0
    /\ warned = 0
    /\ removed = {}

Init == ClientInit /\ ProxyInit

Next ==
    \/ \E c \in Contents : StartSend(c)
    \/ \E c \in Contents : EmptySend(c)
    \/ \E i \in SendIds : AfterSettle(i)
    \/ \E i \in SendIds, r \in Responses : FetchResponse(i, r)
    \/ \E i \in SendIds, e \in NetworkThrows \cup {"Request timeout", "AbortError"} :
          FetchThrow(i, e)
    \/ \E i \in SendIds : BackoffDone(i)
    \/ \E i \in SendIds : Timeout(i)
    \/ CreateNewSession
    \/ \E sid \in SessionIds(sessions) : DeleteSession(sid)
    \/ \E sid \in SessionIds(sessions) \cup {MissingId} : LoadSession(sid)
    \/ \E mid \in MessageIds(sessions) : ToggleMessageBookmark(mid)
    \/ ClearAllSessions
    \/ \E sid \in SessionIds(sessions), t \in Titles : UpdateSessionTitle(sid, t)
    \/ Unmount
    \/ Tick

Spec == Init /\ [][Next]_vars

\* The request pipeline alone, with what the JavaScript runtime guarantees:
\* a pending setTimeout callback (the settle delay, a backoff delay, the
\* API_TIMEOUT timer) runs, and a fetch whose signal is aborted rejects.
\* Nothing obliges the endpoint to answer or the user to send.
NextLive ==
    \/ \E c \in Contents : StartSend(c)
    \/ \E i \in SendIds : AfterSettle(i)
    \/ \E i \in SendIds, r \in Responses : FetchResponse(i, r)
    \/ \E i \in SendIds, e \in NetworkThrows \cup {"Request timeout", "AbortError"} :
          FetchThrow(i, e)
    \/ \E i \in SendIds : BackoffDone(i)
    \/ \E i \in SendIds : Timeout(i)

RuntimeFairness ==
    \A i \in SendIds :
        /\ WF_vars(AfterSettle(i))
        /\ WF_vars(BackoffDone(i))
        /\ WF_vars(Timeout(i))
        /\ WF_vars(FetchThrow(i, AbortThrow(send[i].signal)))

SpecLive == Init /\ [][NextLive]_vars /\ RuntimeFairness

\* The proxy with every kind of request from one client; requests of
\* several clients are interleaved in SpecRate.
NextProxy ==
    \/ \E q \in Requests : POST("", q.body, q.hasKey, q.u)
    \/ Cleanup
    \/ \E d \in TimeSteps : Advance(d)

SpecProxy == Init /\ [][NextProxy]_vars

\* The rate limiter is consulted before the body is read and before the API
\* key is looked at (part_001:50-61), so its decisions depend on the client
\* identifier and the clock alone; this specification sends well-formed
\* requests only and leaves room for longer request histories.
NextRate ==
    \/ \E h \in Headers : POST(h, "valid", TRUE, "ok")
    \/ Cleanup
    \/ \E d \in TimeSteps : Advance(d)

SpecRate == Init /\ [][NextRate]_vars

\* the storage hook after a page load that found any of the persisted items
StoreInit ==
    /\ store \in PersistedItems
    /\ capacity \in Capacities
    /\ sessions = GetInitialValue(store)
    /\ progressItem = TRUE
    /\ progressStats = [totalSessions |-> 0, totalMessages |-> 0]
    /\ currentSessionId = Null
    /\ isLoading = FALSE
    /\ error = NoError
    /\ mounted = TRUE
    /\ abortControllerRef = Null
    /\ timeoutIdRef = Null
    /\ send = [i \in SendIds |-> IdleSend]
    /\ nextId = FirstFreshId
    /\ now = LoadTime
    /\ ops = 0
    /\ warned = 0
    /\ removed = {}
    /\ writes = 0
    /\ lastOp = "load"
    /\ lastValue = <<>>
    /\ raised = GetInitialValueThrows(store)

InitStore == StoreInit /\ ProxyInit

NextStore ==
    \/ \E val \in Updates(sessions) : SetValue(val)
    \/ Reload

SpecStore == InitStore /\ [][NextStore]_vars

\* ================================================================== claims
\* the messages of session sid of collection ss, <<>> when it is absent
MessagesOf(ss, sid) ==
    IF HasSession(ss, sid) THEN SessionOf(ss, sid).messages ELSE <<>>

\* how often message mid occurs in session sid of ss
CountMsg(ss, sid, mid) ==
    Cardinality({ j \in DOMAIN MessagesOf(ss, sid) :
                    MessagesOf(ss, sid)[j].id = mid })

\* this step issues the first request of send i
Issues(i) == send[i].pc \in {"idle", "settle"} /\ send'[i].pc = "fetch"

\* this step completes send i
Completes(i) == send[i].pc # "done" /\ send'[i].pc = "done"

\* this step is taken by send i itself
StepOf(i) == send'[i].pc # send[i].pc \/ send'[i].attempts # send[i].attempts

\* C1: a sendMessage call with non-empty content has appended its user
\* message (trimmed content) exactly once to the target session when the
\* request is issued, and the session still holds it exactly once when the
\* call completes, whatever the network outcome.
C1_UserMessageExactlyOnce ==
    [][\A i \in SendIds :
        /\ (Issues(i) /\ mounted) =>
              /\ CountMsg(sessions', send'[i].sid, send'[i].um.id) = 1
              /\ send'[i].um.content = Trim(send'[i].content)
        /\ (Completes(i) /\ mounted /\
            CountMsg(sessions, send[i].sid, send[i].um.id) = 1) =>
              CountMsg(sessions', send[i].sid, send[i].um.id) = 1]_vars

\* C2: a failed send leaves its user message in place unchanged and appends
\* exactly one assistant message with isError = true and the apology text
\* after it; nothing else is added or removed.
C2_FailureAppendsOneError ==
    [][\A i \in SendIds :
        (Completes(i) /\ send'[i].outcome = "failed" /\ mounted /\
         CountMsg(sessions, send[i].sid, send[i].um.id) = 1) =>
            LET before == MessagesOf(sessions, send[i].sid)
                after == MessagesOf(sessions', send[i].sid)
            IN /\ Len(after) = Len(before) + 1
               /\ SubSeq(after, 1, Len(before)) = before
               /\ after[Len(after)].role = "assistant"
               /\ after[Len(after)].isError = "true"
               /\ after[Len(after)].content = APOLOGY]_vars

\* every session of ss, every message of it (with its bookmark flag) and the
\* title of every session that has messages is still there in ss2
Preserved(ss, ss2) ==
    \A k \in DOMAIN ss :
        /\ HasSession(ss2, ss[k].id)
        /\ \A j \in DOMAIN ss[k].messages :
              \E j2 \in DOMAIN MessagesOf(ss2, ss[k].id) :
                  MessagesOf(ss2, ss[k].id)[j2] = ss[k].messages[j]
        /\ (ss[k].messages # <<>> =>
              SessionOf(ss2, ss[k].id).title = ss[k].title)

\* C3: updates are functions of the latest state, so a step of a send never
\* loses what another update has put into the collection: every session,
\* every message with its bookmark flag and every title set so far is kept.
C3_NoLostUpdate ==
    [][\A i \in SendIds :
        (StepOf(i) /\ mounted) => Preserved(sessions, sessions')]_vars

\* a network request of send i is outstanding
Outstanding(i) == send[i].pc = "fetch" /\ send[i].signal = "live"

\* C4: at most one network request of the pipeline is outstanding at any
\* moment, for every interleaving of sendMessage calls.
C4_AtMostOneOutstanding ==
    Cardinality({ i \in SendIds : Outstanding(i) }) <= 1

\* C5: a send that was cancelled by a newer send or by teardown never
\* changes the session collection afterwards.
C5_CancelledSendIsSilent ==
    [][\A i \in SendIds :
        (send[i].signal = "abort" /\ StepOf(i)) => sessions' = sessions]_vars

\* C6: a send attempts the request at most 3 times, a further attempt only
\* after the previous one threw, waits 2 s before the 2nd and 4 s before the
\* 3rd attempt, makes no attempt after a response, and after the 3rd throw
\* fails without further waiting.
C6_RetryPolicy ==
    \A i \in SendIds :
        /\ send[i].made <= 3
        /\ send[i].made <= send[i].attempts + 1
        /\ send[i].waits \in {<<>>, <<2000>>, <<2000, 4000>>}
        /\ Len(send[i].waits) = (IF send[i].attempts < 3 THEN send[i].attempts ELSE 2)
        /\ (send[i].pc = "backoff" =>
              send[i].made = Len(send[i].waits) /\
              send[i].delay = send[i].waits[Len(send[i].waits)])
        /\ (send[i].pc = "fetch" => send[i].made = Len(send[i].waits) + 1)
        /\ (send[i].status # 0 =>
              send[i].pc = "done" /\ send[i].made = send[i].attempts + 1)
        /\ (send[i].attempts = 3 =>
              send[i].pc = "done" /\ send[i].outcome = "failed" /\
              send[i].made = 3)

\* witness of C6: a send failed after three thrown attempts
C6_Witness ==
    \E i \in SendIds :
        /\ send[i].pc = "done"
        /\ send[i].attempts = 3
        /\ send[i].made = 3
        /\ send[i].waits = <<2000, 4000>>
        /\ send[i].lastError = "TypeError: Failed to fetch"

\* C7: a 429 (or other non-2xx) answer is not retried, the session ends
\* with the user message followed by exactly one isError assistant message,
\* and the exposed error is the rate-limit text of the endpoint.
C7_RateLimitedSend ==
    [][\A i \in SendIds :
        (Completes(i) /\ send'[i].status = 429 /\ mounted /\
         CountMsg(sessions, send[i].sid, send[i].um.id) = 1 /\
         MessagesOf(sessions, send[i].sid)
            [Len(MessagesOf(sessions, send[i].sid))] = send[i].um) =>
            LET after == MessagesOf(sessions', send[i].sid)
            IN /\ send'[i].made = send[i].made
               /\ Len(after) >= 2
               /\ after[Len(after) - 1] = send[i].um
               /\ after[Len(after)].isError = "true"
               /\ CountMsg(sessions', send[i].sid, send[i].um.id) = 1
               /\ error' = "Rate limit exceeded. Please try again later."]_vars

\* C8: a send with no active session creates exactly one session titled
\* with the message text; after a successful reply its messages are exactly
\* [user message, assistant message], totalMessages is up by 2 and
\* totalSessions by 1.  Stated for a send that runs alone.
C8_FirstMessageScenario ==
    [][\A i \in SendIds :
        (Completes(i) /\ send'[i].outcome = "succeeded" /\ mounted /\ ops = 0 /\
         ~HasSession(send[i].snapS, send[i].sid) /\
         (\A j \in SendIds \ {i} : send[j].pc = "idle")) =>
            LET after == MessagesOf(sessions', send[i].sid)
            IN /\ Cardinality({ k \in DOMAIN sessions' :
                                  sessions'[k].id = send[i].sid }) = 1
               /\ Len(sessions') = Len(send[i].snapS) + 1
               /\ SessionOf(sessions', send[i].sid).title = send[i].um.content
               /\ Len(after) = 2
               /\ after[1] = send[i].um
               /\ after[2].role = "assistant"
               /\ after[2].isError # "true"
               /\ progressStats'.totalMessages = send[i].snapP.totalMessages + 2
               /\ progressStats'.totalSessions = send[i].snapP.totalSessions + 1]_vars

\* the POSTs of ip that the rate limiter let pass
Admitted(ip) == { j \in DOMAIN posts[ip] : ~posts[ip][j].limited }

\* C9: per client identifier, the 1st to 5th POST within 60 s of the first
\* one pass the rate limiter and the 6th and every later one within that
\* time is rejected with 429.
C9_SixthRejected ==
    \A ip \in IPs :
        \A k \in DOMAIN posts[ip] :
            posts[ip][k].t - posts[ip][1].t <= 60000 =>
                (posts[ip][k].limited <=> k >= 6)

\* witness of C9: a client's 6th POST, exactly 60 s after its first, was
\* answered 429 while the other client had been served in between
C9_Witness ==
    \E ip \in IPs :
        /\ Len(posts[ip]) = 6
        /\ posts[ip][6].limited
        /\ posts[ip][6].t - posts[ip][1].t = 60000
        /\ lastResponse = RATE_LIMITED
        /\ \E other \in IPs \ {ip} :
              Len(posts[other]) = 1 /\ ~posts[other][1].limited

\* C10 as stated: in any rolling interval of 60 seconds at most 5 requests
\* of the same client identifier are admitted.
C10_RollingWindow ==
    \A ip \in IPs :
        \A k \in DOMAIN posts[ip] :
            Cardinality({ j \in Admitted(ip) :
                            /\ posts[ip][j].t >= posts[ip][k].t
                            /\ posts[ip][j].t < posts[ip][k].t + 60000 }) <= 5

\* POST k of ip opened a window of the limiter
OpensWindow(ip, k) ==
    /\ posts[ip][k].win = posts[ip][k].t
    /\ (k > 1 => posts[ip][k - 1].win # posts[ip][k].win)

\* C10 amended: in any interval of 60 seconds that begins when a window of
\* the client is opened (by its first request, or by its first request more
\* than 60 s after the previous window was opened) at most 5 requests of
\* that client are admitted.
C10_FixedWindow ==
    \A ip \in IPs :
        \A k \in DOMAIN posts[ip] :
            OpensWindow(ip, k) =>
                Cardinality({ j \in Admitted(ip) :
                                /\ j >= k
                                /\ posts[ip][j].t >= posts[ip][k].t
                                /\ posts[ip][j].t <= posts[ip][k].t + 60000 }) <= 5

\* witness of C10: a client used up a window, was rejected, and was admitted
\* again in its next window less than 60 s after an admitted request
C10_Witness ==
    \E ip \in IPs :
        \E j, k \in DOMAIN posts[ip] :
            /\ j < k
            /\ posts[ip][j].limited
            /\ ~posts[ip][k].limited
            /\ OpensWindow(ip, k)
            /\ \E a \in Admitted(ip) :
                  a < j /\ posts[ip][k].t - posts[ip][a].t < 60000

\* ------------------------------------------------------- persistence claims
\* the latest step was a setValue with this outcome
DidSet(outcome) == writes' = writes + 1 /\ lastOp' = outcome

\* raw is the text of exactly the ten sessions of val that were updated last,
\* the latest first
IsTopTen(raw, val) ==
    /\ raw.kind = "json"
    /\ raw.fmt = "compact"
    /\ Len(raw.doc) = 10
    /\ \A k \in 1..10 : \E j \in DOMAIN val : Stringify(<<val[j]>>).doc[1] = raw.doc[k]
    /\ \A k, l \in 1..10 : k # l => raw.doc[k].id # raw.doc[l].id
    /\ \A k \in 1..9 : raw.doc[k].updatedAt >= raw.doc[k + 1].updatedAt
    /\ \A j \in DOMAIN val :
          (\A k \in 1..10 : raw.doc[k].id # val[j].id) =>
              val[j].updatedAt <= raw.doc[10].updatedAt

C12_SaveBackIdempotent ==
    [][(lastOp = "load" /\ writes' = writes + 1 /\ lastOp' # "load"
        /\ lastValue' = sessions) => store' = store]_vars

\* witness of C12: the sessions persisted by an earlier write were loaded and
\* saved back, and the item is the text of what is in memory
C12_Witness ==
    /\ writes = 1
    /\ lastOp = "skipped"
    /\ lastValue = OneSession
    /\ sessions = OneSession
    /\ store = Stringify(OneSession)

\* C13: the collection exposed by the storage hook never contains an entry
\* without a string id or without a sequence of messages.
C13_ExposedEntriesValid ==
    \A k \in DOMAIN sessions : IsValid(sessions[k])

\* C14: storage-hook operations never raise to their caller; a read of a
\* missing or unparseable item yields the default; a write the store
\* rejects returns normally, is dropped (the item stays as it was, or holds
\* the ten most recent sessions after the degradation), leaves the in-memory
\* value equal to the new value and sets no error.
C14_NeverRaises ==
    [][/\ ~raised'
       /\ (lastOp' = "load" /\ store'.kind \in {"none", "garbage"}) =>
              sessions' = <<>>
       /\ DidSet("rejected") =>
              /\ (store' = store \/ IsTopTen(store', lastValue'))
              /\ sessions' = lastValue'
              /\ error' = error]_vars

\* C15: after every change of the session collection whose write the store
\* did not reject, the item under the sessions key is the serialization of
\* the in-memory collection.
C15_StoreEqualsMemory ==
    [][DidSet("stored") => store' = Stringify(sessions')]_vars

\* witness of C15: a write went through after an earlier one was rejected,
\* and the item is the text of the sessions in memory
C15_Witness ==
    /\ lastOp = "stored"
    /\ writes = MaxWrites
    /\ sessions # <<>>
    /\ store = Stringify(sessions)
    /\ ~progressItem

\* ---------------------------------------------------------- proxy claims
\* C16: when the provider call fails because the provider answered 429 the
\* proxy answers 429 with an error text; for every other failure of the
\* provider call it answers 503 with an error text and a non-empty fallback
\* message.
C16_UpstreamFailureTranslation ==
    (lastResponse.upstream /\ lastRequest.u # "ok") =>
        IF lastRequest.u = "http429"
        THEN lastResponse.status = 429 /\ lastResponse.error # ""
        ELSE /\ lastResponse.status = 503
             /\ lastResponse.error # ""
             /\ lastResponse.message # ""

\* a step that handles a POST
PostStep == PostCount' = PostCount + 1

Creates == currentSessionId' = nextId /\ nextId' = nextId + 1

\* C18: a successful send adds exactly 2 to totalMessages and leaves
\* totalSessions unchanged, a failed send changes neither, a session
\* creation adds exactly 1 to totalSessions, and nothing else changes the
\* counters; so totalMessages is its initial value plus twice the number of
\* successful sends and totalSessions its initial value plus the number of
\* sessions created.
C18_StatsCounters ==
    [][mounted =>
        /\ \A i \in SendIds :
              (Completes(i) /\ send'[i].outcome = "succeeded") =>
                  /\ progressStats'.totalMessages =
                         progressStats.totalMessages + 2
                  /\ progressStats'.totalSessions = progressStats.totalSessions
        /\ \A i \in SendIds :
              (Completes(i) /\ send'[i].outcome = "failed") =>
                  progressStats' = progressStats
        /\ Creates =>
              /\ progressStats'.totalSessions = progressStats.totalSessions + 1
              /\ progressStats'.totalMessages = progressStats.totalMessages
        /\ (~Creates /\ \A i \in SendIds : ~Completes(i)) =>
              progressStats' = progressStats]_vars

\* C19: no two sessions of the collection have the same id.
C19_UniqueSessionIds ==
    \A k, l \in DOMAIN sessions : k # l => sessions[k].id # sessions[l].id

\* witness of C19: two sessions, one of them put into the collection by the
\* session-missing branch of a send that has completed
C19_Witness ==
    /\ Len(sessions) = 2
    /\ \E i \in SendIds :
          /\ send[i].pc = "done"
          /\ HasSession(sessions, send[i].sid)
          /\ ~HasSession(send[i].snapS, send[i].sid)

\* the ids of a sequence of messages
IdsOf(msgs) == [j \in DOMAIN msgs |-> msgs[j].id]

IsPrefix(a, b) == Len(a) <= Len(b) /\ SubSeq(b, 1, Len(a)) = a

\* C20: in every transition, the sequence of message ids of every session
\* that is still in the collection afterwards is a prefix of its new
\* sequence of message ids, also when completions of concurrent sends
\* interleave.
C20_MessagePrefixKept ==
    [][mounted =>
        \A k \in DOMAIN sessions :
            HasSession(sessions', sessions[k].id) =>
                IsPrefix(IdsOf(sessions[k].messages),
                         IdsOf(MessagesOf(sessions', sessions[k].id)))]_vars

\* ---------------------------------------------- titles, bookmarks, no-ops
\* the titles updateSessionTitle can have set
EditedTitles == { Trim(t) : t \in Titles }

\* C21: once updateSessionTitle has set the title of a session, no step of
\* a sendMessage changes that title, the send of the session's first
\* message included.
C21_EditedTitleKept ==
    [][mounted =>
        \A i \in SendIds : \A k \in DOMAIN sessions :
            (StepOf(i) /\ sessions[k].title \in EditedTitles
             /\ HasSession(sessions', sessions[k].id)) =>
                SessionOf(sessions', sessions[k].id).title = sessions[k].title]_vars

\* the bookmark flag of a message as it is read: absent counts as false
Bookmarked(m) == m.isBookmarked = "true"

\* collection ss with every bookmark flag replaced by the value it reads as
ReadFlags(ss) ==
    [k \in DOMAIN ss |->
        [ss[k] EXCEPT !.messages =
            [j \in DOMAIN @ |->
                [@[j] EXCEPT !.isBookmarked =
                    IF @ = "true" THEN "true" ELSE "false"]]]]

\* this step is a user operation after which message mid reads differently
Toggles(mid) ==
    /\ ops' = ops + 1
    /\ \E k \in DOMAIN sessions \cap DOMAIN sessions' :
         \E j \in DOMAIN sessions[k].messages \cap DOMAIN sessions'[k].messages :
            /\ sessions[k].messages[j].id = mid
            /\ sessions'[k].messages[j].id = mid
            /\ Bookmarked(sessions'[k].messages[j]) #
                   Bookmarked(sessions[k].messages[j])

\* tt is ss with the bookmark flag of message mid negated and nothing else
\* changed
OnlyFlagOf(ss, tt, mid) ==
    /\ DOMAIN tt = DOMAIN ss
    /\ \A k \in DOMAIN ss :
        /\ [tt[k] EXCEPT !.messages = ss[k].messages] = ss[k]
        /\ DOMAIN tt[k].messages = DOMAIN ss[k].messages
        /\ \A j \in DOMAIN ss[k].messages :
            IF ss[k].messages[j].id = mid
            THEN /\ [tt[k].messages[j] EXCEPT !.isBookmarked =
                         ss[k].messages[j].isBookmarked] = ss[k].messages[j]
                 /\ Bookmarked(tt[k].messages[j]) = ~Bookmarked(ss[k].messages[j])
            ELSE tt[k].messages[j] = ss[k].messages[j]

\* C22: toggleMessageBookmark(id) negates isBookmarked of exactly the
\* message with that id and changes nothing else (no other field of the
\* message, no other message, no title, updatedAt or order, not the current
\* session id), and applying it once more gives back the collection it
\* started from, isBookmarked being read with its default false.
C22_ToggleFrame ==
    [][\A mid \in MessageIds(sessions) :
        Toggles(mid) =>
            /\ OnlyFlagOf(sessions, sessions', mid)
            /\ UNCHANGED <<currentSessionId, isLoading, error, progressStats>>
            /\ ReadFlags(SetSessions(sessions', sessions',
                                     ToggleBookmark(sessions', mid))) =
                   ReadFlags(sessions)]_vars

\* a message has been bookmarked in a session that holds another message
C22_Witness ==
    /\ ops = 1
    /\ \E k \in DOMAIN sessions :
         /\ Len(sessions[k].messages) > 1
         /\ \E j \in DOMAIN sessions[k].messages :
                sessions[k].messages[j].isBookmarked = "true"

\* C23: sendMessage with empty or whitespace-only content changes no
\* state: sessions, stored item, current session id, loading flag, error and
\* progress stats stay, no request is issued, and the in-flight request and
\* the pending timeout of an earlier send are left as they are.
C23_EmptySendNoOp ==
    [][warned' # warned =>
        UNCHANGED <<sessions, store, progressItem, currentSessionId,
                    isLoading, error, progressStats, send,
                    abortControllerRef, timeoutIdRef, nextId>>]_vars

\* an empty send was made while a request with a pending timeout was in
\* flight
C23_Witness ==
    /\ warned = 1
    /\ \E i \in SendIds :
         /\ send[i].pc = "fetch"
         /\ send[i].signal = "live"
         /\ send[i].timer = API_TIMEOUT
         /\ abortControllerRef = i
         /\ timeoutIdRef = i

\* ------------------------------------------------- attempts and timeouts
\* this step starts a retry attempt of send i
Retries(i) == send[i].pc = "backoff" /\ send'[i].made = send[i].made + 1

\* C24: every network attempt of a send runs under its own cancellation
\* token and 30 s timeout: an attempt that timed out counts as a failed
\* attempt, and the retry attempt that follows it starts in flight with a
\* token that is not cancelled and with its timeout armed (sends cancelled
\* by a newer send or by unmounting aside).
C24_AttemptOwnToken ==
    [][\A i \in SendIds :
        /\ (send[i].pc = "fetch" /\ send[i].signal = "timeout" /\ StepOf(i)) =>
              send'[i].attempts = send[i].attempts + 1
        /\ (Retries(i) /\ send[i].signal # "abort") =>
              /\ send'[i].pc = "fetch"
              /\ send'[i].signal = "live"
              /\ send'[i].timer = API_TIMEOUT]_vars

\* ------------------------------------------------------ sweep and windows
\* the moments, from now on, at which the model lets a request arrive
LaterTimes == { srvNow } \cup { srvNow + d : d \in TimeSteps }

\* this step is a sweep of the rate-limit map
SweepStep == ipRequests' # ipRequests /\ PostCount' = PostCount

\* C25: a sweep of the rate-limit map removes every entry whose window
\* started more than 300 s ago and no other entry, and at every moment a
\* sweep leaves the decision and the resulting entry of every later request
\* of every client as they would be without it.
C25_SweepInvisible ==
    [][/\ SweepStep =>
            \A ip \in IPs :
                ipRequests'[ip] =
                    IF ipRequests[ip] # NoEntry /\
                       srvNow - ipRequests[ip].timestamp > 300000
                    THEN NoEntry ELSE ipRequests[ip]
       /\ \A ip \in IPs : \A t \in LaterTimes :
            /\ IsRateLimited(Swept(ipRequests, srvNow), ip, t) =
                   IsRateLimited(ipRequests, ip, t)
            /\ RateMapAfter(Swept(ipRequests, srvNow), ip, t)[ip] =
                   RateMapAfter(ipRequests, ip, t)[ip]]_vars

\* a sweep has removed the entry of one client and kept the entry of another
C25_Witness ==
    \E ip \in IPs :
        /\ Len(posts[ip]) > 0
        /\ ipRequests[ip] = NoEntry
        /\ \E other \in IPs \ {ip} :
              /\ ipRequests[other] # NoEntry
              /\ srvNow - ipRequests[other].timestamp > 0

\* ----------------------------------------- deletion and current session
\* C26: a session that deleteSession or clearAllSessions removed while a
\* send to it was in flight is not in the collection after that send has
\* completed, whether it succeeded or failed.
C26_DeletedStaysDeleted ==
    [][\A i \in SendIds :
        (Completes(i) /\ mounted /\ send[i].sid \in removed) =>
            ~HasSession(sessions', send[i].sid)]_vars

\* no send is between its call and its completion
NoUpdatePending == \A i \in SendIds : send[i].pc \in {"idle", "done"}

\* C27: with no update pending, currentSessionId is null or the id of a
\* session of the collection: deleting the current session or clearing all
\* sessions sets it to null, loadSession of an id that is not in the
\* collection leaves it as it is and sets the error 'Session not found',
\* and no completion of a send removes the session it points to.
C27_CurrentSessionExists ==
    [][/\ (mounted' /\ NoUpdatePending') =>
            (currentSessionId' = Null \/
             HasSession(sessions', currentSessionId'))
       /\ (removed' # removed /\ currentSessionId \in removed') =>
            currentSessionId' = Null
       /\ (ops' = ops + 1 /\ error' # error) =>
            (error' = SESSION_NOT_FOUND /\ UNCHANGED currentSessionId)
       /\ \A i \in SendIds :
            (Completes(i) /\ mounted /\ currentSessionId # Null /\
             HasSession(sessions, currentSessionId)) =>
                HasSession(sessions', currentSessionId')]_vars

\* ------------------------------------------------------------ completion
\* C28: every sendMessage call with non-empty content eventually completes
\* and has set isLoading to false when it does; no send waits forever, also
\* when the endpoint never answers.
C28_EverySendCompletes ==
    /\ \A i \in SendIds : (send[i].pc # "idle") ~> (send[i].pc = "done")
    /\ [][\A i \in SendIds : (Completes(i) /\ mounted) => ~isLoading']_vars

\* ------------------------------------------------------- window restart
\* the start of the window that request k of history ps falls into: the
\* time of the first request, or of the first request more than 60 s after
\* the start of the window before it
RECURSIVE WindowStart(_, _)
WindowStart(ps, k) ==
    IF k = 1 THEN ps[1].t
    ELSE IF ps[k].t - WindowStart(ps, k - 1) > 60000 THEN ps[k].t
    ELSE WindowStart(ps, k - 1)

\* C29: a client that is being rejected with 429 is admitted again on its
\* first request made more than 60 s after its current window started,
\* however many rejected requests it sent in between: a rejected request
\* does not move the window, and that request starts a window with count 1.
C29_AdmittedAfterWindow ==
    [][\A ip \in IPs :
        (Len(posts'[ip]) = Len(posts[ip]) + 1 /\ Len(posts[ip]) > 0) =>
            LET n == Len(posts[ip])
                w == WindowStart(posts[ip], n)
            IN /\ (posts[ip][n].limited /\ srvNow - w > 60000) =>
                    /\ ~posts'[ip][n + 1].limited
                    /\ ipRequests'[ip] = [count |-> 1, timestamp |-> srvNow]
               /\ posts'[ip][n + 1].limited =>
                    /\ WindowStart(posts'[ip], n + 1) = w
                    /\ ipRequests'[ip].timestamp = w]_vars

\* a client was rejected after its window had started, and its next
\* request, more than 60 s after that start, was admitted with count 1
C29_Witness ==
    \E ip \in IPs :
        \E k \in DOMAIN posts[ip] :
            /\ k > 1
            /\ k = Len(posts[ip])
            /\ posts[ip][k - 1].limited
            /\ posts[ip][k - 1].t > WindowStart(posts[ip], k - 1)
            /\ posts[ip][k].t - WindowStart(posts[ip], k - 1) > 60000
            /\ ~posts[ip][k].limited
            /\ ipRequests[ip] = [count |-> 1, timestamp |-> posts[ip][k].t]

\* -------------------------------------------------------------- loading
\* C30: whenever a network request of the pipeline is outstanding, isLoading
\* is true: it is set before the request is issued and becomes false only
\* when no send of the pipeline instance is still in progress, for every
\* interleaving of overlapping sendMessage calls.
C30_LoadingWhileOutstanding ==
    [][/\ mounted' => \A i \in SendIds : Outstanding(i)' => isLoading'
       /\ (mounted /\ isLoading /\ ~isLoading') =>
            \A i \in SendIds : send'[i].pc \in {"idle", "done"}]_vars

====
